---- MODULE Spec2Model ----
(***************************************************************************)
(* Model of pupil_src/shared_modules/file_methods.py: the lazily decoding  *)
(* record wrapper Serialized_Dict, its class-wide decode cache _cache_ref  *)
(* and the msgpack codec it stores its records in, the record log reader   *)
(* and writer, load_object / save_object and Persistent_Dict; and of the   *)
(* marks of pupil_src/player/trim_marks.py.                                *)
(***************************************************************************)
EXTENDS Integers, Sequences, FiniteSets, TLC

(* Number of Serialized_Dict objects the model lets the program allocate. *)
MaxInst == 3

(* Serialized_Dict.cache_len.  The source sets 100; the model runs the same *)
(* ring with a shorter length so that eviction happens within MaxInst.      *)
cache_len == 2

Inst == 1..MaxInst

(* The one Empty() object that fills the initial ring. *)
Empty == 0

(***************************************************************************)
(* Python values.  Every value is a record of the same shape so that any   *)
(* two values can be compared: kind is the Python type, n the number of an *)
(* int, m the entries of a dict or FrozenDict.                             *)
(***************************************************************************)
Keys == {"a", "key"}

(* The keys of a datum of the record log: those and its 'topic'. *)
AllKeys == Keys \cup {"topic"}

(* Iteration order of a dict's keys when it is packed. *)
KeyOrder == <<"topic", "a", "key">>

(* The topic strings, as utf-8 bytes: "g.0", "g.1", "p.0". *)
Topics == << <<103, 46, 48>>, <<103, 46, 49>>, <<112, 46, 48>> >>

EmptyMap == [k \in {} |-> 0]

None == [kind |-> "None", n |-> 0, m |-> EmptyMap]

int(v) == [kind |-> "int", n |-> v, m |-> EmptyMap]

dict(f) == [kind |-> "dict", n |-> 0, m |-> f]

(* The str Topics[t]. *)
str(t) == [kind |-> "str", n |-> t, m |-> EmptyMap]

(* Python truthiness, as tested by "not self._data". *)
truthy(v) ==
  CASE v.kind = "None" -> FALSE
    [] v.kind = "int" -> v.n # 0
    [] v.kind = "str" -> Topics[v.n] # <<>>
    [] OTHER -> DOMAIN v.m # {}

(***************************************************************************)
(* msgpack: positive fixint (0x00-0x7f), nil (0xc0), fixstr (0xa0+len and  *)
(* the utf-8 bytes) and fixmap (0x80+n and n key/value pairs).             *)
(***************************************************************************)
utf8(k) ==
  CASE k = "a" -> <<97>>
    [] k = "key" -> <<107, 101, 121>>
    [] k = "topic" -> <<116, 111, 112, 105, 99>>

pack_str(k) == <<160 + Len(utf8(k))>> \o utf8(k)

RECURSIVE dumps(_)
RECURSIVE pack_pairs(_, _)

pack_pairs(f, j) ==
  IF j > Len(KeyOrder) THEN <<>>
  ELSE (IF KeyOrder[j] \in DOMAIN f
        THEN pack_str(KeyOrder[j]) \o dumps(f[KeyOrder[j]])
        ELSE <<>>) \o pack_pairs(f, j + 1)

dumps(v) ==
  CASE v.kind = "None" -> <<192>>
    [] v.kind = "int" -> <<v.n>>
    [] v.kind = "str" -> <<160 + Len(Topics[v.n])>> \o Topics[v.n]
    [] OTHER -> <<128 + Cardinality(DOMAIN v.m)>> \o pack_pairs(v.m, 1)

(* FrozenDict(obj): the same entries in the subclass. *)
FrozenDict(obj) == [obj EXCEPT !.kind = "FrozenDict"]

_object_hook(obj) == IF obj.kind = "dict" THEN FrozenDict(obj) ELSE None

RECURSIVE unpack(_, _)
RECURSIVE unpack_map(_, _, _, _)

(* The value that starts at byte p of b, and the position after it. *)
unpack(b, p) ==
  LET h == b[p] IN
  CASE h < 128 -> [val |-> int(h), pos |-> p + 1]
    [] h = 192 -> [val |-> None, pos |-> p + 1]
    [] h >= 160 /\ h < 192 ->
         [val |-> str(CHOOSE t \in DOMAIN Topics :
                        Topics[t] = SubSeq(b, p + 1, p + h - 160)),
          pos |-> p + 1 + h - 160]
    [] OTHER -> unpack_map(b, p + 1, h - 128, EmptyMap)

unpack_map(b, p, n, acc) ==
  IF n = 0 THEN [val |-> _object_hook(dict(acc)), pos |-> p]
  ELSE LET len == b[p] - 160
           raw == SubSeq(b, p + 1, p + len)
           k   == CHOOSE s \in AllKeys : utf8(s) = raw
           v   == unpack(b, p + 1 + len)
       IN unpack_map(b, v.pos, n - 1,
                     [x \in DOMAIN acc \cup {k} |->
                        IF x = k THEN v.val ELSE acc[x]])

loads(b) == unpack(b, 1).val

(***************************************************************************)
(* Inputs: the mappings a caller hands to Serialized_Dict, and the payload *)
(* bytes a record log holds for them.                                      *)
(***************************************************************************)
Mappings ==
  { dict(EmptyMap),
    dict([k \in {"a"} |-> dict([j \in {"key"} |-> int(1)])]) }

NoPayload == [kind |-> "None", b |-> <<>>]

bytes(b) == [kind |-> "bytes", b |-> b]

Payloads == { bytes(dumps(m)) : m \in Mappings }

(***************************************************************************)
(* State.                                                                  *)
(*   count       number of Serialized_Dict objects constructed so far      *)
(*   _ser_data   self._ser_data of each object                             *)
(*   _data       self._data of each object                                 *)
(*   _cache_ref  the class attribute Serialized_Dict._cache_ref            *)
(*   last        the last call: operation, receiver, key (for __init__,    *)
(*               which arguments were supplied), the error it raised       *)
(*               ("" for none) and the value it returned                   *)
(*   hist        per object, what last happened to its decoded value       *)
(*   run         the objects decoded for the first time by the latest      *)
(*               uninterrupted series of calls, oldest first               *)
(*   trim        the Trim_Marks object: frame_count, _in_mark, _out_mark   *)
(*   fs          the files: per path, whether it exists and its bytes      *)
(*   store       the Persistent_Dict object: whether one has been opened   *)
(*               and its entries                                           *)
(*   logged      the levels of the log records the last call emitted       *)
(*   pupil_data  what the last load_pupil_data_file returned: per topic    *)
(*               group, the Serialized_Dict objects in order               *)
(*   saved       per path, the data last handed to save_pupil_data_file    *)
(*               for that path                                             *)
(*   thr         per thread, the position of its field access and the      *)
(*               locals of the call                                        *)
(***************************************************************************)
VARIABLES count, _ser_data, _data, _cache_ref, last, hist, run, trim,
          fs, store, logged, pupil_data, saved, given, thr

vars == <<count, _ser_data, _data, _cache_ref, last, hist, run, trim,
          fs, store, logged, pupil_data, saved, given, thr>>

dictVars == <<count, _ser_data, _data, _cache_ref, last, hist, run>>

(* The state outside Serialized_Dict. *)
others == <<trim, fs, store, logged, pupil_data, saved, given, thr>>

Paths == {"file_path", "pupil_data", "user_settings"}

NoFile == [exists |-> FALSE, b |-> <<>>]

(* No call of save_pupil_data_file was made. *)
NotGiven == [file_path |-> "", data |-> <<>>]

File(b) == [exists |-> TRUE, b |-> b]

Threads == {1, 2}

Idle == [pc |-> "idle", self |-> 0, key |-> "", oldest |-> 0]

(* No file, no Persistent_Dict, nothing loaded or saved, no call running. *)
InitOthers ==
  /\ fs = [p \in Paths |-> NoFile]
  /\ store = [open |-> FALSE, d |-> EmptyMap]
  /\ logged = <<>>
  /\ pupil_data = <<>>
  /\ saved = [p \in Paths |-> <<>>]
  /\ given = NotGiven
  /\ thr = [t \in Threads |-> Idle]

Call(op, self, key, err, ret) ==
  [op |-> op, self |-> self, key |-> key, err |-> err, ret |-> ret]

Alive == 1..count

(* No Serialized_Dict has been constructed. *)
InitDict ==
  /\ count = 0
  /\ _ser_data = [i \in Inst |-> <<>>]
  /\ _data = [i \in Inst |-> None]
  /\ _cache_ref = [j \in 1..cache_len |-> Empty]
  /\ last = Call("none", 0, "", "", None)
  /\ hist = [i \in Inst |-> "new"]
  /\ run = <<>>

(* Trim_Marks.__init__ over a capture of n frames; marks are kept in halves *)
(* of a frame so that a float position can be assigned to them.             *)
Trim_Marks(n) == [frame_count |-> 2 * n, _in_mark |-> 0, _out_mark |-> 2 * n]

Init ==
  /\ InitDict
  /\ InitOthers
  /\ trim = Trim_Marks(0)

(***************************************************************************)
(* Serialized_Dict.__init__                                                *)
(***************************************************************************)
__init__(mapping, payload) ==
  IF mapping.kind = "dict"
  THEN [err |-> "", ser |-> dumps(mapping)]
  ELSE IF payload.kind = "bytes"
  THEN [err |-> "", ser |-> payload.b]
  ELSE [err |-> "Exception", ser |-> <<>>]

Supplied(mapping, payload) ==
  CASE mapping = None /\ payload = NoPayload -> "neither"
    [] mapping # None /\ payload = NoPayload -> "mapping"
    [] mapping = None /\ payload # NoPayload -> "payload"
    [] OTHER -> "both"

Construct ==
  \E mapping \in Mappings \cup {None}, payload \in Payloads \cup {NoPayload} :
    LET r == __init__(mapping, payload) IN
    /\ r.err # "" \/ count < MaxInst
    /\ IF r.err = ""
       THEN /\ count' = count + 1
            /\ _ser_data' = [_ser_data EXCEPT ![count + 1] = r.ser]
            /\ _data' = [_data EXCEPT ![count + 1] = None]
            /\ last' = Call("__init__", count + 1, Supplied(mapping, payload), "", None)
       ELSE /\ UNCHANGED <<count, _ser_data, _data>>
            /\ last' = Call("__init__", 0, Supplied(mapping, payload), r.err, None)
    /\ run' = <<>>
    /\ UNCHANGED <<_cache_ref, hist>>
    /\ UNCHANGED others

(***************************************************************************)
(* Serialized_Dict._deser and purge_cache, on the pair                     *)
(* h = [data |-> _data, cache |-> _cache_ref].                             *)
(***************************************************************************)
Empty_purge_cache(data) == data

(* purge_cache that drops the decoded value of every object. *)
purge_cache_all(data, self) == [i \in DOMAIN data |-> None]

purge_cache(data, self) == [data EXCEPT ![self] = None]

(* _deser that forgets the oldest entry without purging it. *)
_deser_keeps_oldest(h, ser, self) ==
  IF ~ truthy(h.data[self])
  THEN [data |-> [h.data EXCEPT ![self] = loads(ser[self])],
        cache |-> Append(Tail(h.cache), self)]
  ELSE h

(* _deser that pops the newest entry, pop() for pop(0). *)
_deser_pops_newest(h, ser, self) ==
  IF ~ truthy(h.data[self])
  THEN LET decoded == [h.data EXCEPT ![self] = loads(ser[self])]
           newest  == h.cache[Len(h.cache)]
           purged  == IF newest = Empty THEN Empty_purge_cache(decoded)
                      ELSE purge_cache(decoded, newest)
       IN [data |-> purged,
           cache |-> Append(SubSeq(h.cache, 1, Len(h.cache) - 1), self)]
  ELSE h

_deser(h, ser, self) ==
  IF ~ truthy(h.data[self])
  THEN LET decoded == [h.data EXCEPT ![self] = loads(ser[self])]
           oldest  == Head(h.cache)
           purged  == IF oldest = Empty THEN Empty_purge_cache(decoded)
                      ELSE purge_cache(decoded, oldest)
       IN [data |-> purged, cache |-> Append(Tail(h.cache), self)]
  ELSE h

Heap == [data |-> _data, cache |-> _cache_ref]

(***************************************************************************)
(* Field access.  Each method runs _deser and then delegates to self._data;*)
(* the result is the new heap, the error raised and the value returned.    *)
(***************************************************************************)
Result(d, err, ret) ==
  [data |-> d.data, cache |-> d.cache, err |-> err, ret |-> ret]

__getitem__(h, ser, self, key) ==
  LET d == _deser(h, ser, self)
      v == d.data[self]
  IN CASE v.kind = "None" -> Result(d, "TypeError", None)
       [] key \notin DOMAIN v.m -> Result(d, "KeyError", None)
       [] OTHER -> Result(d, "", v.m[key])

__len__(h, ser, self) ==
  LET d == _deser(h, ser, self)
      v == d.data[self]
  IN IF v.kind = "None" THEN Result(d, "TypeError", None)
     ELSE Result(d, "", int(Cardinality(DOMAIN v.m)))

get(h, ser, self, key, default) ==
  LET r == __getitem__(h, ser, self, "key")
  IN IF r.err = "KeyError" THEN [r EXCEPT !.err = "", !.ret = default] ELSE r

(* The mutating methods raise before they touch anything. *)
__setitem__(h, ser, self, key, item) == Result(h, "NotImplementedError", None)

(* __delitem__ without its raise: the statements after it run. *)
__delitem___no_raise(h, ser, self, key) ==
  LET d == _deser(h, ser, self)
      v == d.data[self]
  IN CASE v.kind = "None" -> Result(d, "TypeError", None)
       [] key \notin DOMAIN v.m -> Result(d, "KeyError", None)
       [] OTHER ->
            Result([d EXCEPT !.data[self].m = [x \in DOMAIN v.m \ {key} |-> v.m[x]]],
                   "", None)

__delitem__(h, ser, self, key) == Result(h, "NotImplementedError", None)

clear(h, ser, self) == Result(h, "NotImplementedError", None)

update(h, ser, self, other) == Result(h, "NotImplementedError", None)

pop(h, ser, self, key) == Result(h, "NotImplementedError", None)

(***************************************************************************)
(* Bookkeeping of hist and run for a call on self that ran _deser.         *)
(***************************************************************************)
Decodes(self) == ~ truthy(_data[self])

HistAfter(self) ==
  IF Decodes(self)
  THEN LET oldest == Head(_cache_ref)
           h1 == [hist EXCEPT ![self] = "decoded"]
       IN IF oldest # Empty /\ (oldest = self \/ _data[oldest] # None)
          THEN [h1 EXCEPT ![oldest] = "evicted"]
          ELSE h1
  ELSE hist

Window(s) == IF Len(s) > cache_len + 1 THEN Tail(s) ELSE s

RunAfter(self) ==
  IF Decodes(self) /\ hist[self] = "new" THEN Window(Append(run, self)) ELSE <<>>

Access(op, self, key, r) ==
  /\ _data' = r.data
  /\ _cache_ref' = r.cache
  /\ last' = Call(op, self, key, r.err, r.ret)
  /\ hist' = HistAfter(self)
  /\ run' = RunAfter(self)
  /\ UNCHANGED <<count, _ser_data>>
  /\ UNCHANGED others

Mutate(op, self, key, r) ==
  /\ _data' = r.data
  /\ _cache_ref' = r.cache
  /\ last' = Call(op, self, key, r.err, r.ret)
  /\ run' = <<>>
  /\ UNCHANGED <<count, _ser_data, hist>>
  /\ UNCHANGED others

Default == int(7)

GetItem == \E self \in Alive, key \in Keys :
  Access("__getitem__", self, key, __getitem__(Heap, _ser_data, self, key))

LenOf == \E self \in Alive :
  Access("__len__", self, "", __len__(Heap, _ser_data, self))

Get == \E self \in Alive, key \in Keys :
  Access("get", self, key, get(Heap, _ser_data, self, key, Default))

Purge == \E self \in Alive :
  /\ _data' = purge_cache(_data, self)
  /\ last' = Call("purge_cache", self, "", "", None)
  /\ hist' = IF hist[self] = "new" THEN hist ELSE [hist EXCEPT ![self] = "purged"]
  /\ run' = <<>>
  /\ UNCHANGED <<count, _ser_data, _cache_ref>>
  /\ UNCHANGED others

SetItem == \E self \in Alive, key \in Keys :
  Mutate("__setitem__", self, key, __setitem__(Heap, _ser_data, self, key, int(7)))

DelItem == \E self \in Alive, key \in Keys :
  Mutate("__delitem__", self, key, __delitem__(Heap, _ser_data, self, key))

Clear == \E self \in Alive :
  Mutate("clear", self, "", clear(Heap, _ser_data, self))

Update == \E self \in Alive :
  Mutate("update", self, "", update(Heap, _ser_data, self, dict(EmptyMap)))

Pop == \E self \in Alive, key \in Keys :
  Mutate("pop", self, key, pop(Heap, _ser_data, self, key))

(***************************************************************************)
(* Serialized_Dict.FrozenDict: the three overridden methods raise, the     *)
(* other mutators are the ones it inherits from dict.  Each gives the new  *)
(* mapping, the error raised and the value returned.                       *)
(***************************************************************************)
Outcome(m, err, ret) == [m |-> m, err |-> err, ret |-> ret]

Without(m, key) == [m EXCEPT !.m = [x \in DOMAIN m.m \ {key} |-> m.m[x]]]

With(m, key, value) ==
  [m EXCEPT !.m = [x \in DOMAIN m.m \cup {key} |-> IF x = key THEN value ELSE m.m[x]]]

FrozenDict__setitem__(m, key, value) == Outcome(m, "NotImplementedError", None)

FrozenDict_clear(m) == Outcome(m, "NotImplementedError", None)

FrozenDict_update(m, other) == Outcome(m, "NotImplementedError", None)

FrozenDict__delitem__(m, key) ==
  IF key \in DOMAIN m.m THEN Outcome(Without(m, key), "", None)
  ELSE Outcome(m, "KeyError", None)

FrozenDict_pop(m, key) ==
  IF key \in DOMAIN m.m THEN Outcome(Without(m, key), "", m.m[key])
  ELSE Outcome(m, "KeyError", None)

FrozenDict_popitem(m) ==
  IF DOMAIN m.m = {} THEN Outcome(m, "KeyError", None)
  ELSE LET j == CHOOSE x \in 1..Len(KeyOrder) :
                  /\ KeyOrder[x] \in DOMAIN m.m
                  /\ \A y \in (x + 1)..Len(KeyOrder) : KeyOrder[y] \notin DOMAIN m.m
       IN Outcome(Without(m, KeyOrder[j]), "", m.m[KeyOrder[j]])

FrozenDict_setdefault(m, key, default) ==
  IF key \in DOMAIN m.m THEN Outcome(m, "", m.m[key])
  ELSE Outcome(With(m, key, default), "", default)

(* The mappings nested in the decoded value of self, by their key. *)
NestedKeys(self) ==
  IF _data[self].kind = "FrozenDict"
  THEN {k \in DOMAIN _data[self].m : _data[self].m[k].kind = "FrozenDict"}
  ELSE {}

Nested(op, self, k, r) ==
  /\ _data' = [_data EXCEPT ![self].m[k] = r.m]
  /\ last' = Call(op, self, k, r.err, r.ret)
  /\ run' = <<>>
  /\ UNCHANGED <<count, _ser_data, _cache_ref, hist>>
  /\ UNCHANGED others

NestedSetItem == \E self \in Alive : \E k \in NestedKeys(self), key \in Keys :
  Nested("m.__setitem__", self, k, FrozenDict__setitem__(_data[self].m[k], key, Default))

NestedClear == \E self \in Alive : \E k \in NestedKeys(self) :
  Nested("m.clear", self, k, FrozenDict_clear(_data[self].m[k]))

NestedUpdate == \E self \in Alive : \E k \in NestedKeys(self) :
  Nested("m.update", self, k, FrozenDict_update(_data[self].m[k], dict(EmptyMap)))

NestedDelItem == \E self \in Alive : \E k \in NestedKeys(self), key \in Keys :
  Nested("m.__delitem__", self, k, FrozenDict__delitem__(_data[self].m[k], key))

NestedPop == \E self \in Alive : \E k \in NestedKeys(self), key \in Keys :
  Nested("m.pop", self, k, FrozenDict_pop(_data[self].m[k], key))

NestedPopItem == \E self \in Alive : \E k \in NestedKeys(self) :
  Nested("m.popitem", self, k, FrozenDict_popitem(_data[self].m[k]))

NestedSetDefault == \E self \in Alive : \E k \in NestedKeys(self), key \in Keys :
  Nested("m.setdefault", self, k, FrozenDict_setdefault(_data[self].m[k], key, Default))

(***************************************************************************)
(* Spec: construction, field access and purge_cache.                       *)
(* SpecReadOnly: construction, decoding and the mutating methods of        *)
(* Serialized_Dict.  SpecFrozen: construction, decoding and the mutators   *)
(* of the FrozenDicts nested in a decoded value.                           *)
(***************************************************************************)
Next ==
  \/ Construct
  \/ GetItem
  \/ LenOf
  \/ Get
  \/ Purge

Spec == Init /\ [][Next]_vars

NextReadOnly ==
  \/ Construct
  \/ GetItem
  \/ SetItem
  \/ DelItem
  \/ Clear
  \/ Update
  \/ Pop

SpecReadOnly == Init /\ [][NextReadOnly]_vars

NextFrozen ==
  \/ Construct
  \/ GetItem
  \/ NestedSetItem
  \/ NestedClear
  \/ NestedUpdate
  \/ NestedDelItem
  \/ NestedPop
  \/ NestedPopItem
  \/ NestedSetDefault

SpecFrozen == Init /\ [][NextFrozen]_vars

TypeOK ==
  /\ count \in 0..MaxInst
  /\ Len(_cache_ref) = cache_len
  /\ \A j \in 1..cache_len : _cache_ref[j] \in Alive \cup {Empty}

Decoded == {i \in Inst : _data[i] # None}

Program == <<count, _ser_data, _data, _cache_ref>>

(***************************************************************************)
(* C1: at most cache_len objects hold a decoded value (_data is not None). *)
(***************************************************************************)
C1_CacheBound == Cardinality(Decoded) <= cache_len

(* cache_len objects are decoded after a decode has evicted another one. *)
C1_Witness ==
  /\ Cardinality(Decoded) = cache_len
  /\ \E i \in Inst : hist[i] = "evicted"

(***************************************************************************)
(* C2: when cache_len + 1 objects that were never decoded before are       *)
(* decoded one after the other with no other call in between, the first    *)
(* keeps its decoded value while the next cache_len - 1 are decoded and    *)
(* loses it at the decode of the last, where none of the others loses its  *)
(* value.                                                                  *)
(***************************************************************************)
C2_EvictionOrder ==
  /\ Len(run) <= cache_len => \A j \in 1..Len(run) : _data[run[j]] # None
  /\ Len(run) = cache_len + 1 =>
       /\ _data[run[1]] = None
       /\ \A j \in 2..Len(run) : _data[run[j]] # None

(* The series has reached cache_len + 1 objects. *)
C2_Witness ==
  /\ Len(run) = cache_len + 1
  /\ hist[run[1]] = "evicted"

(***************************************************************************)
(* What a call returns when self._data is the fresh decoding of the stored *)
(* bytes.                                                                  *)
(***************************************************************************)
ReadOps == {"__getitem__", "__len__"}

Fresh(self) == loads(_ser_data[self])

Faithful(c) ==
  LET v == Fresh(c.self) IN
  CASE c.op = "__len__" -> c.err = "" /\ c.ret = int(Cardinality(DOMAIN v.m))
    [] c.op = "__getitem__" ->
         IF c.key \in DOMAIN v.m THEN c.err = "" /\ c.ret = v.m[c.key]
         ELSE c.err = "KeyError"
    [] OTHER -> TRUE

(***************************************************************************)
(* C3: the field access that follows purge_cache() on an object succeeds,  *)
(* decodes the stored bytes again and returns what the stored bytes hold.  *)
(***************************************************************************)
C3_AccessAfterPurge ==
  [][ (last'.op \in ReadOps /\ hist[last'.self] = "purged") =>
        /\ Faithful(last')
        /\ _data'[last'.self] = Fresh(last'.self) ]_vars

(***************************************************************************)
(* C4: a decoded value that is present equals the decoding of the stored   *)
(* bytes, and the field access that follows the eviction of an object's    *)
(* decoded value returns what the stored bytes hold.                       *)
(***************************************************************************)
C4_EvictionTransparent ==
  [][ /\ \A i \in Inst : _data'[i] # None => _data'[i] = loads(_ser_data'[i])
      /\ (last'.op \in ReadOps /\ hist[last'.self] = "evicted") => Faithful(last') ]_vars

(***************************************************************************)
(* C5: a field access on an object that holds a decoded value decodes      *)
(* nothing: the ring and every object's decoded value stay as they are.    *)
(***************************************************************************)
C5_NoDecodeWhenDecoded ==
  [][ (last'.op \in ReadOps \cup {"get"} /\ _data[last'.self] # None) =>
        /\ _cache_ref' = _cache_ref
        /\ _data' = _data ]_vars

(***************************************************************************)
(* C6: every attempt to add, remove or replace an entry of a mapping       *)
(* nested in a decoded record fails and leaves the decoded record as it    *)
(* was.                                                                    *)
(***************************************************************************)
NestedOps ==
  {"m.__setitem__", "m.__delitem__", "m.pop", "m.popitem", "m.setdefault",
   "m.update", "m.clear"}

C6_NestedImmutable ==
  [][ last'.op \in NestedOps => (last'.err # "" /\ _data' = _data) ]_vars

(***************************************************************************)
(* C7: item assignment, item deletion, update, clear and pop on a          *)
(* Serialized_Dict raise, decoded or not, and leave the stored bytes, the  *)
(* decoded values and the ring unchanged.                                  *)
(***************************************************************************)
MutOps == {"__setitem__", "__delitem__", "update", "clear", "pop"}

C7_MutationFails ==
  [][ last'.op \in MutOps =>
        (last'.err = "NotImplementedError" /\ UNCHANGED Program) ]_vars

(* A mutating method was called on an object that holds no decoded value *)
(* after having held one, while another object holds one.                *)
C7_Witness ==
  /\ last.op \in MutOps
  /\ last.err = "NotImplementedError"
  /\ hist[last.self] = "evicted"
  /\ _data[last.self] = None
  /\ Decoded # {}

(***************************************************************************)
(* C8: construction succeeds only when exactly one of mapping and payload  *)
(* is supplied; with neither or with both it fails and creates no object.  *)
(***************************************************************************)
C8_ExactlyOne ==
  [][ last'.op = "__init__" =>
        /\ last'.err = "" => last'.key \in {"mapping", "payload"}
        /\ last'.key \in {"neither", "both"} =>
             (last'.err # "" /\ UNCHANGED Program) ]_vars

(***************************************************************************)
(* C9: get(k, default) returns the value the record holds under k when k   *)
(* is present, and default when it is absent.                              *)
(***************************************************************************)
C9_GetByKey ==
  last.op = "get" =>
    /\ last.err = ""
    /\ LET v == Fresh(last.self) IN
       last.ret = IF last.key \in DOMAIN v.m THEN v.m[last.key] ELSE Default

(***************************************************************************)
(* C10: purge_cache() on an object without a decoded value changes nothing,*)
(* and a second purge_cache() right after a first one changes nothing.     *)
(***************************************************************************)
C10_PurgeIdempotent ==
  [][ last'.op = "purge_cache" =>
        /\ _data[last'.self] = None => UNCHANGED Program
        /\ (last.op = "purge_cache" /\ last.self = last'.self) => UNCHANGED Program
        /\ _data'[last'.self] = None
        /\ \A i \in Inst \ {last'.self} : _data'[i] = _data[i]
        /\ UNCHANGED <<count, _ser_data, _cache_ref>> ]_vars

(* purge_cache() was called on an object that another decoded object *)
(* shares the ring with, and which it left without a decoded value.   *)
C10_Witness ==
  /\ last.op = "purge_cache"
  /\ hist[last.self] = "purged"
  /\ \E j \in 1..cache_len : _cache_ref[j] = last.self
  /\ \E i \in Inst \ {last.self} : _data[i] # None

(***************************************************************************)
(* C19: the ring holds exactly cache_len entries and no object occupies    *)
(* more than one of them.                                                  *)
(***************************************************************************)
Slots(i) == {j \in 1..Len(_cache_ref) : _cache_ref[j] = i}

C19_OneSlotEach ==
  /\ Len(_cache_ref) = cache_len
  /\ \A i \in Inst : Cardinality(Slots(i)) <= 1

(***************************************************************************)
(* Trim_Marks (player/trim_marks.py).  Positions are in halves of a frame. *)
(***************************************************************************)
MaxFrameCount == 3

(* Positions a caller assigns: from below 0 to above frame_count. *)
Positions == (0 - 3)..(2 * MaxFrameCount + 3)

min(a, b) == IF a <= b THEN a ELSE b

max(a, b) == IF a >= b THEN a ELSE b

(* int(): truncation towards zero. *)
py_int(h) == IF h >= 0 THEN 2 * (h \div 2) ELSE 0 - 2 * ((0 - h) \div 2)

in_mark_setter(t, value) ==
  [t EXCEPT !._in_mark = py_int(min(t._out_mark, max(0, value)))]

out_mark_setter(t, value) ==
  [t EXCEPT !._out_mark = py_int(min(t.frame_count, max(t._in_mark, value)))]

set(t, mark_range) ==
  [t EXCEPT !._in_mark = mark_range[1], !._out_mark = mark_range[2]]

notTrim == <<dictVars, fs, store, logged, pupil_data, saved, given, thr>>

SetInMark == \E value \in Positions :
  /\ trim' = in_mark_setter(trim, value)
  /\ UNCHANGED notTrim

SetOutMark == \E value \in Positions :
  /\ trim' = out_mark_setter(trim, value)
  /\ UNCHANGED notTrim

SetRange == \E a \in Positions, b \in Positions :
  /\ trim' = set(trim, <<a, b>>)
  /\ UNCHANGED notTrim

InitTrim ==
  /\ InitDict
  /\ InitOthers
  /\ \E n \in 0..MaxFrameCount : trim = Trim_Marks(n)

NextTrim ==
  \/ SetInMark
  \/ SetOutMark
  \/ SetRange

SpecTrim == InitTrim /\ [][NextTrim]_vars

(***************************************************************************)
(* C20: for frame_count >= 0 the marks satisfy                             *)
(* 0 <= in_mark <= out_mark <= frame_count after any sequence of           *)
(* assignments to in_mark and out_mark and of calls to set(mark_range).    *)
(***************************************************************************)
C20_MarksOrdered ==
  /\ 0 <= trim._in_mark
  /\ trim._in_mark <= trim._out_mark
  /\ trim._out_mark <= trim.frame_count

(***************************************************************************)
(* msgpack.unpack(fh, raw=False): one object, no object_hook; it fails on  *)
(* truncated or unknown input and on bytes left over after the object.     *)
(***************************************************************************)
Bad == [ok |-> FALSE, val |-> None, pos |-> 0]

Good(v, p) == [ok |-> TRUE, val |-> v, pos |-> p]

RECURSIVE unpack_obj(_, _)
RECURSIVE unpack_obj_map(_, _, _, _)

unpack_obj(b, p) ==
  IF p > Len(b) THEN Bad
  ELSE LET h == b[p] IN
       CASE h < 128 -> Good(int(h), p + 1)
         [] h = 192 -> Good(None, p + 1)
         [] h >= 128 /\ h < 144 -> unpack_obj_map(b, p + 1, h - 128, EmptyMap)
         [] h >= 160 /\ h < 192 ->
              LET raw == SubSeq(b, p + 1, p + h - 160) IN
              IF p + h - 160 <= Len(b) /\ \E t \in DOMAIN Topics : Topics[t] = raw
              THEN Good(str(CHOOSE t \in DOMAIN Topics : Topics[t] = raw),
                        p + 1 + h - 160)
              ELSE Bad
         [] OTHER -> Bad

unpack_obj_map(b, p, n, acc) ==
  IF n = 0 THEN Good(dict(acc), p)
  ELSE IF p > Len(b) \/ b[p] < 160 \/ b[p] >= 192 \/ p + b[p] - 160 > Len(b) THEN Bad
  ELSE LET len == b[p] - 160
           raw == SubSeq(b, p + 1, p + len)
       IN IF \A s \in AllKeys : utf8(s) # raw THEN Bad
          ELSE LET k == CHOOSE s \in AllKeys : utf8(s) = raw
                   v == unpack_obj(b, p + 1 + len)
               IN IF ~ v.ok THEN Bad
                  ELSE unpack_obj_map(b, v.pos, n - 1,
                                      [x \in DOMAIN acc \cup {k} |->
                                         IF x = k THEN v.val ELSE acc[x]])

msgpack_unpack(b) ==
  LET r == unpack_obj(b, 1) IN
  CASE ~ r.ok -> [err |-> "UnpackException", val |-> None]
    [] r.pos <= Len(b) -> [err |-> "ExtraData", val |-> None]
    [] OTHER -> [err |-> "", val |-> r.val]

(***************************************************************************)
(* pickle.dumps(v, protocol=3) of a dict of str keys and small ints, the   *)
(* legacy encoding of a settings file: PROTO 3, EMPTY_DICT, BINPUT 0, the  *)
(* entries (BINUNICODE key, BINPUT, BININT1 value) closed by SETITEM, or   *)
(* between MARK and SETITEMS when there are several, and STOP.             *)
(***************************************************************************)
RECURSIVE pickle_items(_, _, _)

pickle_items(f, j, memo) ==
  IF j > Len(KeyOrder) THEN <<>>
  ELSE IF KeyOrder[j] \in DOMAIN f
  THEN <<88, Len(utf8(KeyOrder[j])), 0, 0, 0>> \o utf8(KeyOrder[j])
         \o <<113, memo, 75, f[KeyOrder[j]].n>> \o pickle_items(f, j + 1, memo + 1)
  ELSE pickle_items(f, j + 1, memo)

pickle_dumps(v) ==
  LET n == Cardinality(DOMAIN v.m) IN
  <<128, 3, 125, 113, 0>>
    \o (CASE n = 0 -> <<>>
          [] n = 1 -> pickle_items(v.m, 1, 1) \o <<115>>
          [] OTHER -> <<40>> \o pickle_items(v.m, 1, 1) \o <<117>>)
    \o <<46>>

(***************************************************************************)
(* load_object, save_object and Persistent_Dict, on the files f.           *)
(***************************************************************************)
Loaded(err, val, log) == [err |-> err, val |-> val, log |-> log]

(* pickle.load(fh, raw=True): load() takes no keyword raw. *)
_load_object_legacy(f, file_path) ==
  IF ~ f[file_path].exists THEN Loaded("IOError", None, <<>>)
  ELSE Loaded("TypeError", None, <<>>)

load_object(f, file_path, allow_legacy) ==
  IF ~ f[file_path].exists THEN Loaded("IOError", None, <<>>)
  ELSE LET r == msgpack_unpack(f[file_path].b) IN
       IF r.err = "" THEN Loaded("", r.val, <<>>)
       ELSE IF ~ allow_legacy THEN Loaded(r.err, None, <<>>)
       ELSE LET l == _load_object_legacy(f, file_path)
            IN Loaded(l.err, l.val, <<"info">>)

save_object(object_, f, file_path) ==
  [f EXCEPT ![file_path] = File(dumps(object_))]

Opened(d, err, log) == [d |-> d, err |-> err, log |-> log]

(* Persistent_Dict.__init__ that catches IOError only. *)
Persistent_Dict_IOError_only(f, file_path) ==
  LET r == load_object(f, file_path, FALSE) IN
  CASE r.err = "" /\ r.val.kind = "dict" -> Opened(r.val.m, "", r.log)
    [] r.err = "" -> Opened(EmptyMap, "TypeError", r.log)
    [] r.err = "IOError" -> Opened(EmptyMap, "", r.log \o <<"debug">>)
    [] OTHER -> Opened(EmptyMap, r.err, r.log)

(* Persistent_Dict.__init__: the try around the update from load_object.   *)
Persistent_Dict(f, file_path) ==
  LET r == load_object(f, file_path, FALSE) IN
  CASE r.err = "" /\ r.val.kind = "dict" -> Opened(r.val.m, "", r.log)
    [] r.err = "IOError" -> Opened(EmptyMap, "", r.log \o <<"debug">>)
    [] OTHER -> Opened(EmptyMap, "", r.log \o <<"warning">>)

(* save that starts from the entries the file holds instead of {}. *)
save_merge(d, f, file_path) ==
  LET old == Persistent_Dict(f, file_path).d
      new == [k \in DOMAIN old \cup DOMAIN d |-> IF k \in DOMAIN d THEN d[k] ELSE old[k]]
  IN save_object(dict(new), f, file_path)

save(d, f, file_path) == save_object(dict(d), f, file_path)

close(d, f, file_path) == save(d, f, file_path)

(***************************************************************************)
(* The settings file and the calls on it. saved[path] holds the bytes the   *)
(* file had before the last write to it.                                   *)
(***************************************************************************)
SettingsPath == "user_settings"

Entries == {int(1), int(2)}

(* What the program may find at the path: a file of the primary encoding,  *)
(* one of the legacy encoding, a truncated one, one that holds no mapping. *)
Found ==
  { File(dumps(dict([k \in {"a"} |-> int(1)]))),
    File(pickle_dumps(dict([k \in {"a"} |-> int(1)]))),
    File(<<129>>),
    File(<<5>>),
    NoFile }

notStore == <<count, _ser_data, _data, _cache_ref, hist, run, trim, pupil_data, given, thr>>

Open ==
  LET r == Persistent_Dict(fs, SettingsPath) IN
  /\ store' = [open |-> TRUE, d |-> r.d]
  /\ last' = Call("Persistent_Dict", 0, "", r.err, None)
  /\ logged' = r.log
  /\ UNCHANGED <<fs, saved, notStore>>

SetEntry == \E k \in Keys, v \in Entries :
  /\ store.open
  /\ store' = [store EXCEPT !.d = [x \in DOMAIN store.d \cup {k} |->
                                     IF x = k THEN v ELSE store.d[x]]]
  /\ last' = Call("store.__setitem__", 0, k, "", None)
  /\ logged' = <<>>
  /\ UNCHANGED <<fs, saved, notStore>>

DelEntry == \E k \in Keys :
  /\ store.open
  /\ k \in DOMAIN store.d
  /\ store' = [store EXCEPT !.d = [x \in DOMAIN store.d \ {k} |-> store.d[x]]]
  /\ last' = Call("store.__delitem__", 0, k, "", None)
  /\ logged' = <<>>
  /\ UNCHANGED <<fs, saved, notStore>>

Save ==
  /\ store.open
  /\ fs' = save(store.d, fs, SettingsPath)
  /\ saved' = [saved EXCEPT ![SettingsPath] = <<fs[SettingsPath].b>>]
  /\ last' = Call("save", 0, "", "", None)
  /\ logged' = <<>>
  /\ UNCHANGED <<store, notStore>>

Close ==
  /\ store.open
  /\ fs' = close(store.d, fs, SettingsPath)
  /\ saved' = [saved EXCEPT ![SettingsPath] = <<fs[SettingsPath].b>>]
  /\ last' = Call("close", 0, "", "", None)
  /\ logged' = <<>>
  /\ UNCHANGED <<store, notStore>>

LoadObject == \E allow_legacy \in BOOLEAN :
  LET r == load_object(fs, SettingsPath, allow_legacy) IN
  /\ last' = Call("load_object", 0, IF allow_legacy THEN "allow_legacy" ELSE "",
                  r.err, r.val)
  /\ logged' = r.log
  /\ UNCHANGED <<fs, store, saved, notStore>>

InitStore ==
  /\ InitDict
  /\ trim = Trim_Marks(0)
  /\ \E f \in Found : fs = [p \in Paths |-> IF p = SettingsPath THEN f ELSE NoFile]
  /\ store = [open |-> FALSE, d |-> EmptyMap]
  /\ logged = <<>>
  /\ pupil_data = <<>>
  /\ saved = [p \in Paths |-> <<>>]
  /\ given = NotGiven
  /\ thr = [t \in Threads |-> Idle]

NextStore ==
  \/ Open
  \/ SetEntry
  \/ DelEntry
  \/ Save
  \/ Close
  \/ LoadObject

SpecStore == InitStore /\ [][NextStore]_vars

(***************************************************************************)
(* Properties of the settings store.                                       *)
(***************************************************************************)
SettingsFile == fs[SettingsPath]

(* A message of this level was logged by the last call. *)
Logged(level) == \E j \in DOMAIN logged : logged[j] = level

(* The mappings a legacy settings file may encode. *)
Settings == {EmptyMap} \cup {[k \in {"a"} |-> v] : v \in Entries}

(* The primary decoder cannot read the file that exists at the path. *)
Undecodable == SettingsFile.exists /\ msgpack_unpack(SettingsFile.b).err # ""

(* C15: a settings file of the legacy encoding loads through the legacy    *)
(* fallback when a Persistent_Dict is opened on it: the store then holds   *)
(* the entries of the file, not an empty mapping.                          *)
C15_LegacyLoads ==
  \A d \in Settings :
    (last.op = "Persistent_Dict" /\ SettingsFile = File(pickle_dumps(dict(d))))
      => store.d = d

(* C16: opening a Persistent_Dict never propagates an error, and when the  *)
(* file is missing or cannot be decoded the store holds an empty mapping.  *)
C16_OpenNeverFails ==
  last.op = "Persistent_Dict" =>
    /\ last.err = ""
    /\ store.open
    /\ (~ SettingsFile.exists \/ Undecodable) => store.d = EmptyMap

C16_Witness ==
  /\ last.op = "Persistent_Dict"
  /\ Undecodable
  /\ logged = <<"warning">>
  /\ store.d = EmptyMap

(* C17: after close() the file decodes to exactly the mapping of the store *)
(* and to nothing of earlier saves, and a Persistent_Dict opened next on   *)
(* the path holds a mapping equal to the one that was closed.              *)
C17_PersistenceRoundTrip ==
  [][/\ last'.op = "close" =>
          /\ SettingsFile'.exists
          /\ msgpack_unpack(SettingsFile'.b) = [err |-> "", val |-> dict(store'.d)]
     /\ (last.op = "close" /\ last'.op = "Persistent_Dict") =>
          /\ last'.err = ""
          /\ store'.d = store.d]_vars

(* A store closed with 'key' only, over a file that held 'a'. *)
C17_Witness ==
  /\ last.op = "close"
  /\ saved[SettingsPath] = <<dumps(dict([k \in {"a"} |-> int(1)]))>>
  /\ store.d = [k \in {"key"} |-> int(2)]

(* C18: load_object runs the legacy decoder only when the primary decode   *)
(* fails and allow_legacy is true, and then returns what the legacy file   *)
(* holds; with allow_legacy false the error of the primary decode          *)
(* propagates; when the primary decode succeeds its value is returned.     *)
C18_LegacyOnlyWhenPermitted ==
  last.op = "load_object" =>
    /\ (~ Undecodable) => ~ Logged("info")
    /\ (SettingsFile.exists /\ ~ Undecodable) =>
          /\ last.err = ""
          /\ last.ret = msgpack_unpack(SettingsFile.b).val
    /\ (Undecodable /\ last.key # "allow_legacy") =>
          /\ last.err = msgpack_unpack(SettingsFile.b).err
          /\ ~ Logged("info")
    /\ (Undecodable /\ last.key = "allow_legacy") =>
          /\ Logged("info")
          /\ \A d \in Settings :
               SettingsFile = File(pickle_dumps(dict(d))) =>
                 (last.err = "" /\ last.ret = dict(d))

(***************************************************************************)
(* The record log: save_pupil_data_file and load_pupil_data_file.          *)
(***************************************************************************)
(* A datum of topic Topics[t]. *)
Datum(t) == dict([k \in {"topic", "a"} |-> IF k = "topic" THEN str(t) ELSE int(t)])

(* The lists of datums a caller saves: none, one, two of one group, and   *)
(* two groups interleaved.                                                 *)
DataLists ==
  { <<>>,
    <<Datum(3)>>,
    <<Datum(2), Datum(1)>>,
    <<Datum(1), Datum(3), Datum(2)>> }

(* packer.pack((topic, payload)): a 2-array of a str and a bin. *)
pack_frame(topic, payload) ==
  <<146, 160 + Len(topic)>> \o topic \o <<196, Len(payload)>> \o payload

RECURSIVE pack_frames(_, _)

pack_frames(data, j) ==
  IF j > Len(data) THEN <<>>
  ELSE pack_frame(Topics[data[j].m["topic"].n], dumps(data[j])) \o pack_frames(data, j + 1)

(* The file is opened under the name "file_path", whatever file_path is. *)
save_pupil_data_file(f, file_path, data) ==
  [f EXCEPT !["file_path"] = File(pack_frames(data, 1))]

Yield(err, items) == [err |-> err, items |-> items]

RECURSIVE Unpacker(_, _, _)

(* The (topic, payload) pairs the iteration yields from position p on: it  *)
(* ends where the bytes run out, and the unpacking of an object that is    *)
(* no pair fails.                                                          *)
Unpacker(b, p, items) ==
  IF p > Len(b) THEN Yield("", items)
  ELSE IF b[p] # 146 THEN Yield("TypeError", items)
  ELSE IF p + 1 > Len(b) THEN Yield("", items)
  ELSE IF b[p + 1] < 160 \/ b[p + 1] >= 192 THEN Yield("AttributeError", items)
  ELSE LET tlen == b[p + 1] - 160
           q    == p + 2 + tlen
       IN IF q + 1 > Len(b) THEN Yield("", items)
          ELSE IF b[q] # 196 THEN Yield("Exception", items)
          ELSE LET plen == b[q + 1] IN
               IF q + 1 + plen > Len(b) THEN Yield("", items)
               ELSE Unpacker(b, q + 2 + plen,
                             Append(items, [topic |-> SubSeq(b, p + 2, p + 1 + tlen),
                                            payload |-> SubSeq(b, q + 2, q + 1 + plen)]))

RECURSIVE split(_, _)

(* topic.split("."): the segments between the dots (46). *)
split(topic, seg) ==
  IF topic = <<>> THEN <<seg>>
  ELSE IF Head(topic) = 46 THEN <<seg>> \o split(Tail(topic), <<>>)
  ELSE split(Tail(topic), Append(seg, Head(topic)))

(* The group of a frame, were the whole topic taken for it. *)
group_of_whole_topic(topic) == topic

group_of(topic) == split(topic, <<>>)[1]

RECURSIVE group(_, _, _, _)

(* The loop body: pupil_data[topic].append(...) for the j-th frame, whose  *)
(* Serialized_Dict is object first + j.                                    *)
group(items, j, first, acc) ==
  IF j > Len(items) THEN acc
  ELSE LET topic == group_of(items[j].topic)
           acc1  == IF topic \in DOMAIN acc THEN acc
                    ELSE [g \in DOMAIN acc \cup {topic} |->
                            IF g = topic THEN <<>> ELSE acc[g]]
       IN group(items, j + 1, first,
                [acc1 EXCEPT ![topic] = Append(@, first + j)])

(* Serialized_Dict(payload=payload) for the new objects, with the payload  *)
(* decoded at once.                                                        *)
construct_decoded(h, ser, new) ==
  [data |-> [i \in Inst |-> IF i \in new THEN loads(ser[i]) ELSE h.data[i]],
   cache |-> h.cache]

(* Serialized_Dict(payload=payload) for the new objects. *)
construct(h, ser, new) ==
  [data |-> [i \in Inst |-> IF i \in new THEN None ELSE h.data[i]],
   cache |-> h.cache]

load_pupil_data_file(f, file_path, first) ==
  IF ~ f[file_path].exists THEN [err |-> "IOError", items |-> <<>>, pupil_data |-> <<>>]
  ELSE LET r == Unpacker(f[file_path].b, 1, <<>>) IN
       [err |-> r.err, items |-> r.items,
        pupil_data |-> IF r.err = "" THEN group(r.items, 1, first, <<>>) ELSE <<>>]

LogPaths == {"file_path", "pupil_data"}

(* The file of the frames gaze.0, gaze.1, pupil.0 of the specification,    *)
(* with the topics g.0, g.1, p.0.                                          *)
Recording == File(pack_frames(<<Datum(1), Datum(2), Datum(3)>>, 1))

SaveFile == \E file_path \in LogPaths, data \in DataLists :
  /\ fs' = save_pupil_data_file(fs, file_path, data)
  /\ given' = [file_path |-> file_path, data |-> data]
  /\ last' = Call("save_pupil_data_file", 0, file_path, "", None)
  /\ run' = <<>>
  /\ UNCHANGED <<count, _ser_data, _data, _cache_ref, hist>>
  /\ UNCHANGED <<trim, store, logged, pupil_data, saved, thr>>

LoadFile == \E file_path \in LogPaths :
  LET r   == load_pupil_data_file(fs, file_path, count)
      n   == IF r.err = "" THEN Len(r.items) ELSE 0
      new == (count + 1)..(count + n)
      ser == [i \in Inst |-> IF i \in new THEN r.items[i - count].payload
                             ELSE _ser_data[i]]
      h   == construct(Heap, ser, new)
  IN /\ count + n <= MaxInst
     /\ count' = count + n
     /\ _ser_data' = ser
     /\ _data' = h.data
     /\ _cache_ref' = h.cache
     /\ pupil_data' = r.pupil_data
     /\ last' = Call("load_pupil_data_file", 0, file_path, r.err, None)
     /\ run' = <<>>
     /\ UNCHANGED <<hist, fs, given>>
     /\ UNCHANGED <<trim, store, logged, saved, thr>>

InitLog ==
  /\ InitDict
  /\ trim = Trim_Marks(0)
  /\ \E f \in {NoFile, Recording} :
       fs = [p \in Paths |-> IF p = "pupil_data" THEN f ELSE NoFile]
  /\ store = [open |-> FALSE, d |-> EmptyMap]
  /\ logged = <<>>
  /\ pupil_data = <<>>
  /\ saved = [p \in Paths |-> <<>>]
  /\ given = NotGiven
  /\ thr = [t \in Threads |-> Idle]

NextLog ==
  \/ SaveFile
  \/ LoadFile
  \/ LenOf

SpecLog == InitLog /\ [][NextLog]_vars

(***************************************************************************)
(* Properties of the record log.                                           *)
(***************************************************************************)
(* The bytes of a topic before its first dot: no dot is among them and a   *)
(* dot, or the end of the topic, follows them.                             *)
FirstSegment(topic) ==
  LET n == CHOOSE m \in 0..Len(topic) :
             /\ \A j \in 1..m : topic[j] # 46
             /\ m = Len(topic) \/ topic[m + 1] = 46
  IN SubSeq(topic, 1, n)

(* The frames of the file the last call named. *)
FramesRead == Unpacker(fs[last.key].b, 1, <<>>).items

(* The stored bytes of the records of a group. *)
Records(g) == [j \in DOMAIN pupil_data[g] |-> _ser_data[pupil_data[g][j]]]

Payload(frame) == frame.payload

Map(F(_), s) == [j \in DOMAIN s |-> F(s[j])]

(* C12: load_pupil_data_file returns one group for each distinct first     *)
(* segment of the topics of the frames, and the records of a group are the *)
(* frames of that segment, in the order of the file.                       *)
C12_GroupedInFileOrder ==
  (last.op = "load_pupil_data_file" /\ last.err = "") =>
    /\ DOMAIN pupil_data = {FirstSegment(FramesRead[j].topic) : j \in DOMAIN FramesRead}
    /\ \A g \in DOMAIN pupil_data :
         LET InGroup(frame) == FirstSegment(frame.topic) = g
         IN Records(g) = Map(Payload, SelectSeq(FramesRead, InGroup))

(* The frames g.0, g.1, p.0 were loaded: group g of two, group p of one. *)
C12_Witness ==
  /\ last.op = "load_pupil_data_file"
  /\ last.err = ""
  /\ DOMAIN pupil_data = {<<103>>, <<112>>}
  /\ Len(pupil_data[<<103>>]) = 2
  /\ Len(pupil_data[<<112>>]) = 1
  /\ Map(LAMBDA frame : frame.topic, FramesRead) = Topics

(* The objects the last load returned. *)
Returned == UNION {{pupil_data[g][j] : j \in DOMAIN pupil_data[g]} : g \in DOMAIN pupil_data}

(* C13: load_pupil_data_file decodes nothing: the records it returns hold  *)
(* no decoded value, and the ring and the decoded value of every object    *)
(* that existed before are as they were.                                   *)
C13_LoadDecodesNothing ==
  [][last'.op = "load_pupil_data_file" =>
       /\ _cache_ref' = _cache_ref
       /\ \A i \in 1..count : _data'[i] = _data[i]
       /\ \A i \in (count + 1)..count' : _data'[i] = None
       /\ Returned' = (count + 1)..count']_vars

(* Records were loaded while an older object held its decoded value. *)
C13_Witness ==
  /\ last.op = "load_pupil_data_file"
  /\ Returned # {}
  /\ \E i \in Alive \ Returned : _data[i] # None /\ _cache_ref[cache_len] = i

RECURSIVE Thaw(_)

(* The dict a decoded value is equal to: a FrozenDict equals the dict of   *)
(* the same items.                                                         *)
Thaw(v) ==
  IF v.kind \in {"dict", "FrozenDict"}
  THEN dict([k \in DOMAIN v.m |-> Thaw(v.m[k])])
  ELSE v

ValueOf(b) == Thaw(loads(b))

(* C14: when load_pupil_data_file(path) follows save_pupil_data_file(path, *)
(* data), the load succeeds and its groups hold the datums of data: each   *)
(* group the datums of its first segment, in written order, each record    *)
(* decoding to its datum.                                                  *)
C14_SaveLoadRoundTrip ==
  [][(/\ last.op = "save_pupil_data_file"
      /\ last'.op = "load_pupil_data_file"
      /\ last'.key = last.key) =>
       /\ last'.err = ""
       /\ DOMAIN pupil_data' =
            {FirstSegment(Topics[given.data[j].m["topic"].n]) : j \in DOMAIN given.data}
       /\ \A g \in DOMAIN pupil_data' :
            LET InGroup(datum) == FirstSegment(Topics[datum.m["topic"].n]) = g
            IN Map(ValueOf, Records(g)') = SelectSeq(given.data, InGroup)]_vars

(***************************************************************************)
(* Threads that read fields of distinct objects.  A thread runs            *)
(* __getitem__ step by step: the check of _deser, the decode, the pop of   *)
(* the oldest entry of the ring with its purge, the append, and the read   *)
(* of self._data; the steps of the threads interleave.  run holds the      *)
(* objects that were decoded and not evicted since, in decode order.       *)
(***************************************************************************)
At(pc, self, key) == [pc |-> pc, self |-> self, key |-> key, oldest |-> 0]

(* The objects another thread is reading. *)
Busy(t) == {thr[u].self : u \in {v \in Threads \ {t} : thr[v].pc # "idle"}}

Without1(s, i) == SelectSeq(s, LAMBDA x : x # i)

notThreads == <<count, _ser_data, hist, trim, fs, store, logged, pupil_data, saved, given>>

(* self[key] is called. *)
Begin(t) == \E self \in Alive \ Busy(t), key \in Keys :
  /\ thr[t].pc = "idle"
  /\ thr' = [thr EXCEPT ![t] = At("check", self, key)]
  /\ UNCHANGED <<_data, _cache_ref, last, run, notThreads>>

(* if not self._data *)
Check(t) ==
  /\ thr[t].pc = "check"
  /\ thr' = [thr EXCEPT ![t].pc = IF ~ truthy(_data[thr[t].self]) THEN "decode" ELSE "read"]
  /\ UNCHANGED <<_data, _cache_ref, last, run, notThreads>>

(* self._data = msgpack.unpackb(self._ser_data, ...) *)
Decode(t) ==
  /\ thr[t].pc = "decode"
  /\ _data' = [_data EXCEPT ![thr[t].self] = loads(_ser_data[thr[t].self])]
  /\ run' = Append(Without1(run, thr[t].self), thr[t].self)
  /\ thr' = [thr EXCEPT ![t].pc = "pop"]
  /\ UNCHANGED <<_cache_ref, last, notThreads>>

(* self._cache_ref.pop(0).purge_cache() *)
PopPurge(t) ==
  /\ thr[t].pc = "pop"
  /\ IF _cache_ref = <<>>
     THEN /\ last' = Call("__getitem__", thr[t].self, thr[t].key, "IndexError", None)
          /\ thr' = [thr EXCEPT ![t] = Idle]
          /\ UNCHANGED <<_data, _cache_ref, run>>
     ELSE LET oldest == Head(_cache_ref) IN
          /\ _cache_ref' = Tail(_cache_ref)
          /\ _data' = IF oldest = Empty THEN Empty_purge_cache(_data)
                      ELSE purge_cache(_data, oldest)
          /\ run' = Without1(run, oldest)
          /\ thr' = [thr EXCEPT ![t].pc = "append", ![t].oldest = oldest]
          /\ UNCHANGED last
  /\ UNCHANGED notThreads

(* self._cache_ref.append(self) *)
AppendSelf(t) ==
  /\ thr[t].pc = "append"
  /\ _cache_ref' = Append(_cache_ref, thr[t].self)
  /\ thr' = [thr EXCEPT ![t].pc = "read"]
  /\ UNCHANGED <<_data, last, run, notThreads>>

(* return self._data[key] *)
Read(t) ==
  LET v == _data[thr[t].self]
      key == thr[t].key
  IN /\ thr[t].pc = "read"
     /\ last' = CASE v.kind = "None" -> Call("__getitem__", thr[t].self, key, "TypeError", None)
                  [] key \notin DOMAIN v.m -> Call("__getitem__", thr[t].self, key, "KeyError", None)
                  [] OTHER -> Call("__getitem__", thr[t].self, key, "", v.m[key])
     /\ thr' = [thr EXCEPT ![t] = Idle]
     /\ UNCHANGED <<_data, _cache_ref, run, notThreads>>

(* The bytes of every object: {'a': {'key': 1}}. *)
Stored == dumps(dict([k \in {"a"} |-> dict([j \in {"key"} |-> int(1)])]))

(* MaxInst objects were constructed and none was read. *)
InitThreads ==
  /\ count = MaxInst
  /\ _ser_data = [i \in Inst |-> Stored]
  /\ _data = [i \in Inst |-> None]
  /\ _cache_ref = [j \in 1..cache_len |-> Empty]
  /\ last = Call("none", 0, "", "", None)
  /\ hist = [i \in Inst |-> "new"]
  /\ run = <<>>
  /\ InitOthers
  /\ trim = Trim_Marks(0)

NextThreads == \E t \in Threads :
  \/ Begin(t)
  \/ Check(t)
  \/ Decode(t)
  \/ PopPurge(t)
  \/ AppendSelf(t)
  \/ Read(t)

SpecThreads == InitThreads /\ [][NextThreads]_vars

Quiescent == \A t \in Threads : thr[t].pc = "idle"

(* The objects in the ring, oldest first. *)
Tracked == SelectSeq(_cache_ref, LAMBDA x : x # Empty)

(* C11: under every interleaving of the steps of threads that read fields  *)
(* of distinct objects, each read returns the value of its own record, and *)
(* when no call is running the ring has cache_len entries and holds each   *)
(* tracked object once, in the order of the decodes.                       *)
C11_ThreadSafe ==
  /\ last.op = "__getitem__" => Faithful(last)
  /\ Quiescent =>
       /\ Len(_cache_ref) = cache_len
       /\ \A i \in Inst : Cardinality(Slots(i)) <= 1
       /\ Tracked = run

====
